---- MODULE Spec2Model ----
(***************************************************************************)
(* Inscenium edge worker: the WebAssembly single-layer compositor          *)
(* (edge/edge_worker_wasm/src/lib.rs) and the multi-layer EdgeCompositor   *)
(* (tests/rust/edge_worker_tests.rs).                                      *)
(*                                                                         *)
(* Numbers.  TLC integers are 32-bit signed, so every quantity that can    *)
(* leave that range (a u32 product, a usize product) is held as a          *)
(* little-endian sequence of 16-bit limbs.  f32 values of the blend are    *)
(* held as [m, e], meaning m * 2^e with a 24-bit significand, and every    *)
(* f32 operation rounds to nearest, ties to even, as IEEE 754 does.        *)
(***************************************************************************)
EXTENDS Integers, Sequences, FiniteSets, TLC

VARIABLES
    args,               \* the arguments of the pending/last single-layer composite_segment call
    ret,                \* what that call produced
    vargs,              \* the arguments of the pending/last validate_frame_size call
    vret,               \* what that call produced
    config,             \* EdgeCompositor.config
    performance_stats,  \* EdgeCompositor.performance_stats
    call,               \* the arguments of the last EdgeCompositor call
    result,             \* what that call produced
    okSince,            \* history: calls that returned Ok since construction / last reset
    uteSince,           \* history: calls that returned UncertaintyThresholdExceeded since then
    ncalls,             \* history: number of calls made on the instance
    gargs,              \* the arguments of the pending/last should_composite_layer call
    gret                \* what that call produced

vars == <<args, ret, vargs, vret, config, performance_stats, call, result,
          okSince, uteSince, ncalls, gargs, gret>>

pixelVars == <<args, ret>>
sizeVars  == <<vargs, vret>>
gateVars  == <<gargs, gret>>
segVars   == <<config, performance_stats, call, result, okSince, uteSince, ncalls>>

-----------------------------------------------------------------------------
(* Bounds of the model.                                                    *)

\* the largest frame, in pixels, a single-layer call is tried on
MaxPixels == 2

\* the longest layer list an EdgeCompositor call is tried on
MaxLayers == 2

\* the number of calls made on one EdgeCompositor instance
MaxCalls == 3

-----------------------------------------------------------------------------------------------------------------------------------------------------
(* Wide naturals: five 16-bit limbs, least significant first (80 bits).    *)

Limb == 2^16

\* n is a TLC integer, 0 <= n < 2^31
ToWide(n) == <<n % Limb, n \div Limb, 0, 0, 0>>

\* x * y for two limbs, as [hi, lo]; no intermediate value reaches 2^31
Mul16(x, y) ==
    LET p1  == x * (y \div 256)
        p0  == x * (y % 256)
        low == (p1 % 256) * 256 + p0
    IN  [hi |-> p1 \div 256 + low \div Limb, lo |-> low % Limb]

\* the mathematical product of two wide naturals below 2^32
WMul32(a, b) ==
    LET p00 == Mul16(a[1], b[1])
        p01 == Mul16(a[1], b[2])
        p10 == Mul16(a[2], b[1])
        p11 == Mul16(a[2], b[2])
        s1  == p00.hi + p01.lo + p10.lo
        s2  == p01.hi + p10.hi + p11.lo + s1 \div Limb
    IN  <<p00.lo, s1 % Limb, s2 % Limb, p11.hi + s2 \div Limb, 0>>

\* the mathematical product of a wide natural below 2^64 and 4
WTimes4(a) ==
    LET s1 == a[1] * 4
        s2 == a[2] * 4 + s1 \div Limb
        s3 == a[3] * 4 + s2 \div Limb
        s4 == a[4] * 4 + s3 \div Limb
    IN  <<s1 % Limb, s2 % Limb, s3 % Limb, s4 % Limb, s4 \div Limb>>

WFits32(w) == w[3] = 0 /\ w[4] = 0 /\ w[5] = 0

\* the low 32 bits
WWrap32(w) == <<w[1], w[2], 0, 0, 0>>

WLess(a, b) ==
    \E k \in 1..5 :
        /\ a[k] < b[k]
        /\ \A j \in (k+1)..5 : a[j] = b[j]

\* defined for w < 2^31
WToInt(w) == w[1] + Limb * w[2]

-----
(* The build.  Rust's integer `*` panics on overflow when the profile has  *)
(* overflow checks (debug, test) and wraps when it has not (release);      *)
(* usize is 32 bits on wasm32 and 64 bits on the hosts the tests run on.   *)

Builds == [overflow_checks : BOOLEAN, usize_bits : {32, 64}]

\* u32 `a * b`: [panic, val]
U32Mul(a, b, build) ==
    LET p == WMul32(a, b)
    IN  IF WFits32(p) THEN [panic |-> FALSE, val |-> p]
        ELSE IF build.overflow_checks THEN [panic |-> TRUE, val |-> p]
        ELSE [panic |-> FALSE, val |-> WWrap32(p)]

\* usize `a * b`: [panic, val]
UsizeMul(a, b, build) ==
    LET p == WMul32(a, b)
    IN  IF build.usize_bits = 64 \/ WFits32(p) THEN [panic |-> FALSE, val |-> p]
        ELSE IF build.overflow_checks THEN [panic |-> TRUE, val |-> p]
        ELSE [panic |-> FALSE, val |-> WWrap32(p)]

-----------------------------------------------------------------------------
(* f32, non-negative finite values: [m, e] is m * 2^e, with m = 0 or       *)
(* 2^23 <= m < 2^24.                                                       *)

RECURSIVE BitLen(_)
BitLen(n) == IF n = 0 THEN 0 ELSE 1 + BitLen(n \div 2)

F32Zero == [m |-> 0, e |-> 0]

\* The f32 nearest to (n + f) * 2^e, ties to even, where 0 <= n < 2^31 and
\* 0 < f < 1 if sticky, f = 0 if not.  A caller that sets sticky passes n of
\* at least 26 bits, so the discarded part always includes f.
F32Round(n, e, sticky) ==
    IF n = 0 THEN F32Zero
    ELSE LET len == BitLen(n)
         IN  IF len <= 24
             THEN [m |-> n * 2^(24 - len), e |-> e - (24 - len)]
             ELSE LET d    == len - 24
                      q    == n \div 2^d
                      r    == n % 2^d
                      half == 2^(d-1)
                      up   == r > half \/ (r = half /\ (sticky \/ q % 2 = 1))
                      m    == IF up THEN q + 1 ELSE q
                  IN  IF m = 2^24 THEN [m |-> 2^23, e |-> e + d + 1]
                      ELSE [m |-> m, e |-> e + d]

\* floor(n * 2^s / d) and the remainder, by long division
RECURSIVE LongDiv(_, _, _)
LongDiv(n, d, s) ==
    IF s = 0 THEN [q |-> n \div d, r |-> n % d]
    ELSE LET p == LongDiv(n, d, s - 1)
         IN  [q |-> 2 * p.q + (2 * p.r) \div d, r |-> (2 * p.r) % d]

\* `v as f32 / 255.0` for a u8 v
F32DivU8By255(v) ==
    IF v = 0 THEN F32Zero
    ELSE LET s  == 34 - BitLen(v)
             qr == LongDiv(v, 255, s)
         IN  F32Round(qr.q, 0 - s, qr.r # 0)

\* `1.0 - x` for an f32 x with 2^-8 <= x <= 1 (every non-zero v / 255.0)
F32OneMinus(x) ==
    LET k == 0 - x.e
        p == IF k = 31 THEN (2147483647 - x.m) + 1 ELSE 2^k - x.m
    IN  F32Round(p, x.e, FALSE)

\* `v as f32 * x` for a u8 v and an f32 x
F32MulU8(v, x) ==
    IF v = 0 \/ x.m = 0 THEN F32Zero
    ELSE LET mh == x.m \div 256
             ml == x.m % 256
             t  == v * ml
             q  == v * mh + t \div 256      \* the exact product is q * 256 + r
             r  == t % 256
         IN  IF q < 2^22
             THEN F32Round(q * 256 + r, x.e, FALSE)
             ELSE F32Round(q * 64 + r \div 4, x.e + 2, r % 4 # 0)

\* `x + y` for non-negative f32 x, y
F32Add(x, y) ==
    IF x.m = 0 THEN y
    ELSE IF y.m = 0 THEN x
    ELSE LET hi   == IF x.e >= y.e THEN x ELSE y
             lo   == IF x.e >= y.e THEN y ELSE x
             diff == hi.e - lo.e
             low  == IF diff >= 27 THEN 0 ELSE (lo.m * 8) \div 2^diff
             lost == IF diff >= 27 THEN TRUE ELSE (lo.m * 8) % 2^diff # 0
         IN  F32Round(hi.m * 8 + low, hi.e - 3, lost)

\* `x.clamp(0.0, 255.0) as u8` for a non-negative f32 x: the cast truncates
F32ClampToU8(x) ==
    IF x.m = 0 THEN 0
    ELSE IF x.e >= 0 THEN 255
    ELSE IF 0 - x.e > 30 THEN 0
    ELSE LET t == x.m \div 2^(0 - x.e)
         IN  IF t >= 255 THEN 255 ELSE t

(* f32 depths are held as small integers; NaN is the one value that every  *)
(* comparison rejects.                                                     *)
NaN == 0 - 2^30

\* a plausible slip: `<=` for `<`, so the creative wins a depth tie
F32LtOrEqual(a, b) == a # NaN /\ b # NaN /\ a <= b

F32Lt(a, b) == a # NaN /\ b # NaN /\ a < b

F32Ge(a, b) == a # NaN /\ b # NaN /\ a >= b

F32Gt(a, b) == a # NaN /\ b # NaN /\ a > b

-----------------------------------------------------------------------------
(* lib.rs: the single-layer compositor.                                    *)

\* a plausible slip: the two weights exchanged
BlendWeightsSwapped(base_val, creative_val, alpha) ==
    LET blended == F32Add(F32MulU8(base_val, alpha),
                          F32MulU8(creative_val, F32OneMinus(alpha)))
    IN  F32ClampToU8(blended)

\* the value composite_with_depth stores in one channel of a blended pixel
Blend(base_val, creative_val, alpha) ==
    LET blended == F32Add(F32MulU8(creative_val, alpha),
                          F32MulU8(base_val, F32OneMinus(alpha)))
    IN  F32ClampToU8(blended)

Panicked(why) == [tag |-> "panic", frame |-> <<>>, why |-> why]

Returned(frame) == [tag |-> "frame", frame |-> frame, why |-> ""]

\* `(width * height) as usize`: [panic, val]
PixelCount(width, height, build) == U32Mul(ToWide(width), ToWide(height), build)

\* a plausible slip: the result starts as a copy of the base frame
\* (`base_frame.to_vec()`) instead of zeros
CompositeWithDepthOnBaseCopy(base_frame, creative_frame, depth_map, alpha_mask, width, height, creative_depth, build) ==
    LET pc == PixelCount(width, height, build)
    IN  IF pc.panic THEN Panicked("attempt to multiply with overflow")
        ELSE IF WLess(ToWide(Len(depth_map)), pc.val)
        THEN Panicked("index out of bounds")
        ELSE LET pixel_count == WToInt(pc.val)
                 Front(i) == /\ F32Lt(creative_depth, depth_map[i + 1])
                             /\ alpha_mask[i + 1] > 0
                 OutOfBounds(i) ==
                     \/ i >= Len(alpha_mask)
                     \/ i * 4 + 3 >= Len(base_frame)
                     \/ Front(i) /\ i * 4 + 3 >= Len(creative_frame)
                 Channel(k) ==
                     LET i == k \div 4
                     IN  IF i >= pixel_count THEN base_frame[k + 1]
                         ELSE IF Front(i)
                         THEN Blend(base_frame[k + 1], creative_frame[k + 1],
                                    F32DivU8By255(alpha_mask[i + 1]))
                         ELSE base_frame[k + 1]
             IN  IF \E i \in 0..(pixel_count - 1) : OutOfBounds(i)
                 THEN Panicked("index out of bounds")
                 ELSE Returned([k \in 1..Len(base_frame) |-> Channel(k - 1)])

\* composite_with_depth.  An index at or past the end of a slice panics.
CompositeWithDepth(base_frame, creative_frame, depth_map, alpha_mask, width, height, creative_depth, build) ==
    LET pc == PixelCount(width, height, build)
    IN  IF pc.panic THEN Panicked("attempt to multiply with overflow")
        ELSE IF WLess(ToWide(Len(depth_map)), pc.val)
        THEN Panicked("index out of bounds")
        ELSE LET pixel_count == WToInt(pc.val)
                 Front(i) == /\ F32Lt(creative_depth, depth_map[i + 1])
                             /\ alpha_mask[i + 1] > 0
                 OutOfBounds(i) ==
                     \/ i >= Len(alpha_mask)
                     \/ i * 4 + 3 >= Len(base_frame)
                     \/ Front(i) /\ i * 4 + 3 >= Len(creative_frame)
                 Channel(k) ==
                     LET i == k \div 4
                     IN  IF i >= pixel_count THEN 0
                         ELSE IF Front(i)
                         THEN Blend(base_frame[k + 1], creative_frame[k + 1],
                                    F32DivU8By255(alpha_mask[i + 1]))
                         ELSE base_frame[k + 1]
             IN  IF \E i \in 0..(pixel_count - 1) : OutOfBounds(i)
                 THEN Panicked("index out of bounds")
                 ELSE Returned([k \in 1..Len(base_frame) |-> Channel(k - 1)])

\* composite_segment (lib.rs), the exported entry point
CompositeSegment(base_frame, creative_frame, depth_map, alpha_mask, width, height, creative_depth, build) ==
    LET pc == PixelCount(width, height, build)
    IN  IF pc.panic THEN Panicked("attempt to multiply with overflow")
        ELSE LET bytes == UsizeMul(pc.val, ToWide(4), build)
             IN  IF bytes.panic THEN Panicked("attempt to multiply with overflow")
                 ELSE IF \/ WLess(ToWide(Len(base_frame)), bytes.val)
                         \/ WLess(ToWide(Len(creative_frame)), bytes.val)
                         \/ WLess(ToWide(Len(depth_map)), pc.val)
                         \/ WLess(ToWide(Len(alpha_mask)), pc.val)
                 THEN Returned(base_frame)
                 ELSE CompositeWithDepth(base_frame, creative_frame, depth_map,
                                         alpha_mask, width, height,
                                         creative_depth, build)

BoolResult(b) == [tag |-> "bool", value |-> b, why |-> ""]

BoolPanicked(why) == [tag |-> "panic", value |-> FALSE, why |-> why]

\* validate_frame_size: `data_len >= (width * height * 4) as usize`, the
\* product taken in u32
ValidateFrameSize(data_len, width, height, build) ==
    LET wh == U32Mul(ToWide(width), ToWide(height), build)
    IN  IF wh.panic THEN BoolPanicked("attempt to multiply with overflow")
        ELSE LET bytes == U32Mul(wh.val, ToWide(4), build)
             IN  IF bytes.panic
                 THEN BoolPanicked("attempt to multiply with overflow")
                 ELSE BoolResult(~WLess(ToWide(data_len), bytes.val))

-----------------------------------------------------------------------------
(* edge_worker_tests.rs: EdgeCompositor.                                   *)
(*                                                                         *)
(* The f32 values of this part (thresholds, uncertainty score, opacity,    *)
(* transform entries) are held in fixed point, as a count of 1/256.  Every *)
(* input below is a multiple of 1/16 of small magnitude, so each f32 sum,  *)
(* difference and product the code forms is exact and equals the           *)
(* fixed-point one.  NaN is absorbing.                                     *)

Unit == 2^8

FxAbs(x) == IF x = NaN THEN NaN ELSE IF x < 0 THEN 0 - x ELSE x

FxAdd(x, y) == IF x = NaN \/ y = NaN THEN NaN ELSE x + y

FxSub(x, y) == IF x = NaN \/ y = NaN THEN NaN ELSE x - y

FxMul(x, y) == IF x = NaN \/ y = NaN THEN NaN ELSE (x * y) \div Unit

\* `x as u8` for a finite f32 x: truncates and saturates
FxToU8(x) == IF x < 0 THEN 0 ELSE IF x \div Unit > 255 THEN 255 ELSE x \div Unit

\* `opacity < 0.1`: the f32 nearest to 0.1 lies strictly between 25/256 and
\* 26/256, so for a count x of 1/256 the test is x <= 25
BelowTenth(x) == x * 10 < Unit

NoFrame == [width |-> 0, height |-> 0, data |-> <<>>]

Ok(frame) == [tag |-> "Ok", err |-> "", frame |-> frame]

Err(e) == [tag |-> "Err", err |-> e, frame |-> NoFrame]

EdgePanicked(why) == [tag |-> "panic", err |-> why, frame |-> NoFrame]

NoResult == [tag |-> "none", err |-> "", frame |-> NoFrame]

\* PerformanceStats::default()
DefaultStats ==
    [frames_processed |-> 0, avg_processing_time_ms |-> 0,
     memory_usage_mb |-> 0, uncertainty_rejections |-> 0]

\* a plausible slip: the scale component is left out of the total
TranslationUncertaintyOnly(transform, base_uncertainty) ==
    FxMul(FxAdd(FxAbs(transform[3]), FxAbs(transform[6])), base_uncertainty)

\* estimate_memory_usage: [panic, val]; a value below 2^32 over 2^20 is its
\* upper 16-bit limb over 16
estimate_memory_usage(base_frame, layers, build) ==
    LET wh == U32Mul(ToWide(base_frame.width), ToWide(base_frame.height), build)
    IN  IF wh.panic THEN [panic |-> TRUE, val |-> 0]
        ELSE LET bytes == U32Mul(wh.val, ToWide(4), build)
             IN  IF bytes.panic THEN [panic |-> TRUE, val |-> 0]
                 ELSE [panic |-> FALSE,
                       val |-> bytes.val[2] \div 16 + Len(layers) * 2]

calculate_transform_uncertainty(transform, base_uncertainty) ==
    LET scale_x == transform[1]
        scale_y == transform[5]
        translation_uncertainty ==
            FxMul(FxAdd(FxAbs(transform[3]), FxAbs(transform[6])), base_uncertainty)
        scale_uncertainty ==
            FxMul(FxAdd(FxAbs(FxSub(scale_x, Unit)), FxAbs(FxSub(scale_y, Unit))),
                  base_uncertainty)
    IN  FxAdd(translation_uncertainty, scale_uncertainty)

should_composite_layer(cfg, layer, uncertainty) ==
    IF BelowTenth(layer.opacity) THEN FALSE
    ELSE F32Lt(calculate_transform_uncertainty(layer.transform, uncertainty),
               cfg.quality_threshold)

Min(a, b) == IF a <= b THEN a ELSE b

\* blend_normal: the alpha channel of the bytes both buffers hold
blend_normal(frame, layer) ==
    [frame EXCEPT !.data =
        [i \in 1..Len(frame.data) |->
            IF i <= Min(Len(frame.data), Len(layer.creative_data)) /\ (i - 1) % 4 = 3
            THEN FxToU8(frame.data[i] * (Unit - layer.opacity)
                          + layer.creative_data[i] * layer.opacity)
            ELSE frame.data[i]]]

\* a plausible reading of the open question: a layer with no creative data is
\* skipped instead of failing the call
CompositeLayerSkipsEmpty(frame, layer) ==
    IF layer.creative_data = <<>> THEN [failed |-> FALSE, frame |-> frame]
    ELSE IF layer.blend_mode = "Normal"
    THEN [failed |-> FALSE, frame |-> blend_normal(frame, layer)]
    ELSE [failed |-> FALSE, frame |-> frame]

\* composite_layer: [failed, frame]; blend_multiply, blend_screen and
\* blend_overlay have empty bodies
composite_layer(frame, layer) ==
    IF layer.creative_data = <<>> THEN [failed |-> TRUE, frame |-> frame]
    ELSE IF layer.blend_mode = "Normal"
    THEN [failed |-> FALSE, frame |-> blend_normal(frame, layer)]
    ELSE [failed |-> FALSE, frame |-> frame]

\* the `for layer in layers` loop of composite_segment from layer k on; the
\* `?` leaves it at the first failure
RECURSIVE CompositeLayers(_, _, _, _, _)
CompositeLayers(cfg, frame, layers, uncertainty, k) ==
    IF k > Len(layers) THEN [failed |-> FALSE, frame |-> frame]
    ELSE IF should_composite_layer(cfg, layers[k], uncertainty)
    THEN LET done == composite_layer(frame, layers[k])
         IN  IF done.failed THEN done
             ELSE CompositeLayers(cfg, done.frame, layers, uncertainty, k + 1)
    ELSE CompositeLayers(cfg, frame, layers, uncertainty, k + 1)

\* a plausible slip: the rejection is returned but not counted
CountRejectionNot(stats) == stats

\* `self.performance_stats.uncertainty_rejections += 1`
CountRejection(stats) ==
    [stats EXCEPT !.uncertainty_rejections = @ + 1]

\* a plausible slip: the frame is counted although the call failed
CountFrameAlways(stats, failed, estimated_memory) ==
    [stats EXCEPT !.frames_processed = @ + 1,
                  !.memory_usage_mb = estimated_memory]

\* the statistics after the layer loop: updated only when no layer failed
CountFrame(stats, failed, estimated_memory) ==
    IF failed THEN stats
    ELSE [stats EXCEPT !.frames_processed = @ + 1,
                       !.memory_usage_mb = estimated_memory]

\* EdgeCompositor::composite_segment: [result, stats]
EdgeCompositeSegment(cfg, stats, base_frame, layers, uncertainty_score, build) ==
    IF base_frame.data = <<>>
    THEN [result |-> Err("InvalidInput"), stats |-> stats]
    ELSE IF F32Gt(uncertainty_score, cfg.uncertainty_threshold)
    THEN [result |-> Err("UncertaintyThresholdExceeded"),
          stats |-> CountRejection(stats)]
    ELSE LET estimated_memory == estimate_memory_usage(base_frame, layers, build)
         IN  IF estimated_memory.panic
             THEN [result |-> EdgePanicked("attempt to multiply with overflow"),
                   stats |-> stats]
             ELSE IF estimated_memory.val > cfg.max_memory_mb
             THEN [result |-> Err("MemoryExceeded"), stats |-> stats]
             ELSE LET out == CompositeLayers(cfg, base_frame, layers,
                                             uncertainty_score, 1)
                  IN  [result |-> IF out.failed THEN Err("ProcessingFailed")
                                  ELSE Ok(out.frame),
                       stats |-> CountFrame(stats, out.failed, estimated_memory.val)]

-----------------------------------------------------------------------------
(* The inputs the single-layer compositor is tried on.                     *)

\* n bytes that repeat the pattern pat
Buffer(pat, n) == [k \in 1..n |-> pat[((k - 1) % Len(pat)) + 1]]

BasePatterns == { <<255, 0, 0, 255>>, <<10, 200, 77, 128, 1, 254, 3, 99>> }

CreativePatterns == { <<0, 0, 255, 255>>, <<255, 17, 128, 0, 64, 250, 100, 1>> }

AlphaPatterns == { <<255>>, <<0>>, <<128>>, <<1, 254>>, <<255, 0, 128>> }

DepthPatterns == { <<10>>, <<5>>, <<NaN>>, <<10, 5, NaN>> }

CreativeDepths == { 5, 10, NaN }

BaseLengths == { 0, 3, 4, 4 * MaxPixels, 4 * MaxPixels + 1 }

CreativeLengths == { 0, 4, 4 * MaxPixels }

\* <<width, height>>; 641 * 6700417 = 2^32 + 1
Dimensions ==
    { <<0, 0>>, <<1, 1>>, <<MaxPixels, 1>>, <<65536, 65536>>, <<32768, 32768>>,
      <<641, 6700417>> }

PixelArgs ==
    { [base_frame |-> Buffer(bp, bl), creative_frame |-> Buffer(cp, cl),
       depth_map |-> Buffer(dp, dl), alpha_mask |-> Buffer(ap, al),
       width |-> d[1], height |-> d[2], creative_depth |-> cd] :
        bp \in BasePatterns, bl \in BaseLengths,
        cp \in CreativePatterns, cl \in CreativeLengths,
        dp \in DepthPatterns, dl \in 0..MaxPixels,
        ap \in AlphaPatterns, al \in 0..MaxPixels,
        d \in Dimensions, cd \in CreativeDepths }

Pending == [tag |-> "pending", frame |-> <<>>, why |-> ""]

Idle == [tag |-> "idle"]

InitPixel ==
    /\ args \in PixelArgs
    /\ ret = Pending
    /\ vargs = Idle /\ vret = Idle
    /\ config = Idle /\ performance_stats = Idle /\ call = Idle /\ result = Idle
    /\ okSince = 0 /\ uteSince = 0 /\ ncalls = 0
    /\ gargs = Idle /\ gret = Idle

\* the host calls composite_segment on some build of the crate
CallCompositeSegment ==
    /\ ret = Pending
    /\ \E build \in Builds :
          ret' = CompositeSegment(args.base_frame, args.creative_frame,
                                  args.depth_map, args.alpha_mask, args.width,
                                  args.height, args.creative_depth, build)
    /\ UNCHANGED <<args, sizeVars, segVars, gateVars>>

NextPixel == CallCompositeSegment

SpecPixel == InitPixel /\ [][NextPixel]_vars

-----------------------------------------------------------------------------
(* The inputs validate_frame_size is tried on.                             *)

DataLens == { 0, 4, 39999, 40000, 2^30 }

Widths == { 0, 1, 100, 641, 32768, 65536 }

Heights == { 0, 1, 100, 32768, 65536, 6700417 }

BoolPending == [tag |-> "pending", value |-> FALSE, why |-> ""]

InitSize ==
    /\ vargs \in [data_len : DataLens, width : Widths, height : Heights]
    /\ vret = BoolPending
    /\ args = Idle /\ ret = Idle
    /\ config = Idle /\ performance_stats = Idle /\ call = Idle /\ result = Idle
    /\ okSince = 0 /\ uteSince = 0 /\ ncalls = 0
    /\ gargs = Idle /\ gret = Idle

\* the host calls validate_frame_size on some build of the crate
CallValidateFrameSize ==
    /\ vret = BoolPending
    /\ \E build \in Builds :
          vret' = ValidateFrameSize(vargs.data_len, vargs.width, vargs.height,
                                    build)
    /\ UNCHANGED <<vargs, pixelVars, segVars, gateVars>>

NextSize == CallValidateFrameSize

SpecSize == InitSize /\ [][NextSize]_vars

-----------------------------------------------------------------------------
(* The inputs EdgeCompositor is tried on, and its life.                    *)

Identity == <<Unit, 0, 0, 0, Unit, 0, 0, 0, Unit>>

\* translated by 1 along x, scaled by 3/2 along x: its transform uncertainty
\* is 3/2 of the frame's
Warped == <<Unit + Unit \div 2, 0, Unit, 0, Unit, 0, 0, 0, Unit>>

\* a layer as the tests build it; one with no creative data that is too
\* faint to be admitted; one with no creative data whose admission depends on
\* the frame's uncertainty
Layers ==
    { [creative_data |-> <<200, 200, 200, 200>>, transform |-> Identity,
       opacity |-> 3 * (Unit \div 4), blend_mode |-> "Normal"],
      [creative_data |-> <<>>, transform |-> Identity,
       opacity |-> Unit \div 16, blend_mode |-> "Screen"],
      [creative_data |-> <<>>, transform |-> Warped,
       opacity |-> Unit, blend_mode |-> "Multiply"] }

LayerLists == UNION { [1..k -> Layers] : k \in 0..MaxLayers }

\* 1920 x 1080 x 4 bytes are 7.9 MB; 65536 x 65536 x 4 is 2^34
Frames ==
    { [width |-> 1, height |-> 1, data |-> <<100, 100, 100, 100>>],
      [width |-> 640, height |-> 480, data |-> <<>>],
      [width |-> 2, height |-> 1, data |-> <<100, 100, 100, 100>>],
      [width |-> 1920, height |-> 1080, data |-> <<150, 150, 150, 150>>],
      [width |-> 65536, height |-> 65536, data |-> <<100, 100, 100, 100>>] }

\* 1/4, 1/2 (the uncertainty threshold itself) and 3/4
Uncertainties == { Unit \div 4, Unit \div 2, 3 * (Unit \div 4) }

Configs ==
    { [max_memory_mb |-> m, quality_threshold |-> 3 * (Unit \div 4),
       uncertainty_threshold |-> Unit \div 2] : m \in {4, 256} }

NoCall ==
    [op |-> "none", base_frame |-> NoFrame, layers |-> <<>>,
     uncertainty_score |-> 0]

\* EdgeCompositor::new
InitSegment ==
    /\ config \in Configs
    /\ performance_stats = DefaultStats
    /\ call = NoCall /\ result = NoResult
    /\ okSince = 0 /\ uteSince = 0 /\ ncalls = 0
    /\ gargs = Idle /\ gret = Idle
    /\ args = Idle /\ ret = Idle /\ vargs = Idle /\ vret = Idle

\* the host calls composite_segment on the instance
EdgeCallCompositeSegment ==
    /\ call.op = "none"
    /\ ncalls < MaxCalls
    /\ \E base_frame \in Frames, layers \in LayerLists,
          uncertainty_score \in Uncertainties,
          build \in { b \in Builds : b.usize_bits = 32 } :
          LET out == EdgeCompositeSegment(config, performance_stats, base_frame,
                                          layers, uncertainty_score, build)
          IN  /\ call' = [op |-> "composite_segment", base_frame |-> base_frame,
                          layers |-> layers,
                          uncertainty_score |-> uncertainty_score]
              /\ result' = out.result
              /\ performance_stats' = out.stats
              /\ okSince' = IF out.result.tag = "Ok" THEN okSince + 1 ELSE okSince
              /\ uteSince' =
                    IF out.result = Err("UncertaintyThresholdExceeded")
                    THEN uteSince + 1 ELSE uteSince
    /\ ncalls' = ncalls + 1
    /\ UNCHANGED <<config, pixelVars, sizeVars, gateVars>>

\* reset_stats
EdgeResetStats ==
    /\ call.op = "none"
    /\ ncalls < MaxCalls
    /\ performance_stats' = DefaultStats
    /\ okSince' = 0 /\ uteSince' = 0
    /\ ncalls' = ncalls + 1
    /\ UNCHANGED <<config, call, result, pixelVars, sizeVars, gateVars>>

\* the host is done with the value a call returned; a panic ends the instance
EdgeDropResult ==
    /\ call.op # "none"
    /\ result.tag # "panic"
    /\ call' = NoCall /\ result' = NoResult
    /\ UNCHANGED <<config, performance_stats, okSince, uteSince, ncalls,
                   pixelVars, sizeVars, gateVars>>

NextSegment ==
    \/ EdgeCallCompositeSegment
    \/ EdgeResetStats
    \/ EdgeDropResult

SpecSegment == InitSegment /\ [][NextSegment]_vars

-----------------------------------------------------------------------------
(* The inputs the layer admission gate (should_composite_layer) is tried   *)
(* on.  Opacities lie in [0, 1]; 25/256 and 26/256 are the counts either   *)
(* side of 0.1.                                                            *)

GateOpacities == { 0, Unit \div 16, 25, 26, Unit \div 2, Unit }

\* translated by -1 along x and 1/2 along y, scaled by 1/2 along y: its
\* transform uncertainty is twice the frame's
Shifted == <<Unit, 0, 0 - Unit, 0, Unit \div 2, Unit \div 2, 0, 0, Unit>>

Degenerate == <<NaN, 0, 0, 0, Unit, 0, 0, 0, Unit>>

GateTransforms == { Identity, Warped, Shifted, Degenerate }

\* 0, 1/4, 3/8, 1/2 and 3/4
GateUncertainties ==
    { 0, Unit \div 4, 3 * (Unit \div 8), Unit \div 2, 3 * (Unit \div 4) }

\* quality thresholds 1/2 (as test_quality_based_layer_filtering) and 3/4
GateConfigs ==
    { [max_memory_mb |-> 256, quality_threshold |-> q,
       uncertainty_threshold |-> 4 * (Unit \div 5)] :
        q \in { Unit \div 2, 3 * (Unit \div 4) } }

GateArgs ==
    { [config |-> c,
       layer |-> [creative_data |-> <<255, 255, 255, 255>>, transform |-> t,
                  opacity |-> o, blend_mode |-> "Normal"],
       uncertainty |-> u] :
        c \in GateConfigs, t \in GateTransforms, o \in GateOpacities,
        u \in GateUncertainties }

InitGate ==
    /\ gargs \in GateArgs
    /\ gret = BoolPending
    /\ args = Idle /\ ret = Idle /\ vargs = Idle /\ vret = Idle
    /\ config = Idle /\ performance_stats = Idle /\ call = Idle /\ result = Idle
    /\ okSince = 0 /\ uteSince = 0 /\ ncalls = 0

\* should_composite_layer is called on a compositor of that configuration
CallShouldCompositeLayer ==
    /\ gret = BoolPending
    /\ gret' = BoolResult(should_composite_layer(gargs.config, gargs.layer,
                                                 gargs.uncertainty))
    /\ UNCHANGED <<gargs, pixelVars, sizeVars, segVars>>

NextGate == CallShouldCompositeLayer

SpecGate == InitGate /\ [][NextGate]_vars

-----------------------------------------------------------------------------
(* Properties of the single-layer compositor (checked under SpecPixel).    *)

Called == ret.tag # "pending"

\* width * height and width * height * 4 as mathematical products
MathPixels == WMul32(ToWide(args.width), ToWide(args.height))

MathBytes == WTimes4(MathPixels)

BaseTooShort     == WLess(ToWide(Len(args.base_frame)), MathBytes)
CreativeTooShort == WLess(ToWide(Len(args.creative_frame)), MathBytes)
DepthTooShort    == WLess(ToWide(Len(args.depth_map)), MathPixels)
AlphaTooShort    == WLess(ToWide(Len(args.alpha_mask)), MathPixels)

\* all four buffers are at least as long as width * height requires
ValidCall ==
    ~BaseTooShort /\ ~CreativeTooShort /\ ~DepthTooShort /\ ~AlphaTooShort

\* the pixel indices of a valid call
PixelIndices == IF ValidCall THEN 0..(WToInt(MathPixels) - 1) ELSE {}

PixelOf(frame, i) == [c \in 1..4 |-> frame[i * 4 + c]]

InFront(i) ==
    /\ args.creative_depth # NaN /\ args.depth_map[i + 1] # NaN
    /\ args.creative_depth < args.depth_map[i + 1]

\* C1: in a valid call, a pixel where creative_depth < depth_map[i] and
\* alpha_mask[i] = 255 comes out as the creative frame's pixel, all 4 channels.
C1_OpaqueFrontPixelIsCreative ==
    (Called /\ ValidCall) =>
        /\ ret.tag = "frame"
        /\ \A i \in PixelIndices :
              (InFront(i) /\ args.alpha_mask[i + 1] = 255) =>
                  PixelOf(ret.frame, i) = PixelOf(args.creative_frame, i)

C1_Witness ==
    /\ Called /\ ValidCall /\ ret.tag = "frame"
    /\ \E i \in PixelIndices :
          /\ InFront(i) /\ args.alpha_mask[i + 1] = 255
          /\ PixelOf(args.creative_frame, i) # PixelOf(args.base_frame, i)
          /\ PixelOf(ret.frame, i) = PixelOf(args.creative_frame, i)

\* C2: in a valid call, a pixel where creative_depth >= depth_map[i] (a tie
\* included) or alpha_mask[i] = 0 comes out as the base frame's pixel.
C2_OccludedOrTransparentPixelIsBase ==
    (Called /\ ValidCall) =>
        /\ ret.tag = "frame"
        /\ \A i \in PixelIndices :
              (F32Ge(args.creative_depth, args.depth_map[i + 1])
                 \/ args.alpha_mask[i + 1] = 0) =>
                  PixelOf(ret.frame, i) = PixelOf(args.base_frame, i)

\* a depth tie under a non-zero alpha, and a zero alpha in front of the scene
C2_Witness ==
    /\ Called /\ ValidCall /\ ret.tag = "frame"
    /\ \E i \in PixelIndices :
          /\ args.creative_depth # NaN
          /\ args.creative_depth = args.depth_map[i + 1]
          /\ args.alpha_mask[i + 1] > 0
          /\ PixelOf(args.creative_frame, i) # PixelOf(args.base_frame, i)
          /\ PixelOf(ret.frame, i) = PixelOf(args.base_frame, i)

\* the call of test_composite_with_partial_alpha, generalised over the depths
PartialAlphaCall ==
    /\ args.width = 1 /\ args.height = 1
    /\ args.base_frame = <<255, 0, 0, 255>>
    /\ args.creative_frame = <<0, 0, 255, 255>>
    /\ Len(args.depth_map) >= 1 /\ Len(args.alpha_mask) >= 1
    /\ InFront(0)
    /\ args.alpha_mask[1] = 128

\* C3: red base, blue creative, creative in front, alpha 128: the output is
\* [128, 0, 128, 255].
C3_PartialAlphaYields128 ==
    (Called /\ PartialAlphaCall) => ret = Returned(<<128, 0, 128, 255>>)

\* C4: when any of the four size preconditions fails, the call returns the
\* base frame, byte for byte.
C4_MalformedCallReturnsBase ==
    (Called /\ ~ValidCall) => ret = Returned(args.base_frame)

\* C5: the call never fails: it returns a frame, whatever the lengths, the
\* dimensions and the depth are, and never indexes past the end of a buffer.
C5_NeverFails ==
    Called => ret.tag = "frame"

-----------------------------------------------------------------------------
(* Properties of validate_frame_size (checked under SpecSize).             *)

\* width * height * 4 as a mathematical product
MathFrameBytes == WTimes4(WMul32(ToWide(vargs.width), ToWide(vargs.height)))

\* C6: validate_frame_size returns true exactly when data_len is at least the
\* mathematical product width * height * 4.
C6_ValidateSizeIsMathematical ==
    vret.tag # "pending" =>
        vret = BoolResult(~WLess(ToWide(vargs.data_len), MathFrameBytes))

-----------------------------------------------------------------------------
(* Properties of EdgeCompositor (checked under SpecSegment).               *)

\* a step that is one call of composite_segment
SegmentCallStep == call.op = "none" /\ call'.op = "composite_segment"

AboveThreshold(c) ==
    /\ c.uncertainty_score # NaN
    /\ c.uncertainty_score > config.uncertainty_threshold

\* width * height * 4 of the call's base frame, as a mathematical product
MathFrameSize(c) ==
    WTimes4(WMul32(ToWide(c.base_frame.width), ToWide(c.base_frame.height)))

\* (width * height * 4 bytes in whole MB) + 2 MB * number of layers
MathEstimate(c) ==
    LET bytes == MathFrameSize(c)
    IN  bytes[2] \div 16 + bytes[3] * 2^12 + Len(c.layers) * 2

Undersized(c) == WLess(ToWide(Len(c.base_frame.data)), MathFrameSize(c))

RejectedAsUncertain ==
    /\ result' = Err("UncertaintyThresholdExceeded")
    /\ performance_stats'.uncertainty_rejections =
           performance_stats.uncertainty_rejections + 1
    /\ performance_stats'.frames_processed = performance_stats.frames_processed

\* C7, as claimed: every call whose frame_uncertainty is above the threshold
\* returns UncertaintyThresholdExceeded and counts one rejection, whatever the
\* base frame and the layers are.
C7_AnyUncertainCallIsRejected ==
    [][(SegmentCallStep /\ AboveThreshold(call')) => RejectedAsUncertain]_vars

\* C7, amended: every call with a non-empty base frame buffer whose
\* frame_uncertainty is above the threshold returns
\* UncertaintyThresholdExceeded, counts exactly one rejection and leaves
\* frames_processed unchanged, whatever the layers are.
C7_UncertainCallWithDataIsRejected ==
    [][(SegmentCallStep /\ AboveThreshold(call')
          /\ call'.base_frame.data # <<>>) => RejectedAsUncertain]_vars

C7_Witness ==
    /\ call.op = "composite_segment"
    /\ AboveThreshold(call)
    /\ call.base_frame.data # <<>>
    /\ call.layers # <<>>
    /\ result = Err("UncertaintyThresholdExceeded")
    /\ performance_stats.uncertainty_rejections = 2
    /\ performance_stats.frames_processed = 1

\* C8, read for the calls that reach the memory check (a non-empty base frame
\* buffer, an uncertainty not above the threshold): when the estimated memory
\* exceeds max_memory_mb the call returns MemoryExceeded and leaves
\* frames_processed unchanged.
C8_OverBudgetCallIsRejected ==
    [][(SegmentCallStep /\ call'.base_frame.data # <<>>
          /\ ~AboveThreshold(call')
          /\ MathEstimate(call') > config.max_memory_mb)
        => /\ result' = Err("MemoryExceeded")
           /\ performance_stats'.frames_processed =
                  performance_stats.frames_processed]_vars

\* C9: a call whose base frame buffer is empty or shorter than
\* width * height * 4 returns InvalidInput, with no frame and no counter changed.
C9_EmptyOrUndersizedIsInvalidInput ==
    [][(SegmentCallStep
          /\ (call'.base_frame.data = <<>> \/ Undersized(call')))
        => /\ result' = Err("InvalidInput")
           /\ performance_stats' = performance_stats]_vars

\* C10: frames_processed is the number of calls that returned Ok, and
\* uncertainty_rejections the number that returned
\* UncertaintyThresholdExceeded, since construction or the last reset_stats;
\* so a call that ends otherwise changes neither, and only reset_stats takes
\* them back to zero.
C10_CountersMatchHistory ==
    /\ performance_stats.frames_processed = okSince
    /\ performance_stats.uncertainty_rejections = uteSince

\* one Ok, one rejection, then a call that ended in ProcessingFailed
C10_Witness ==
    /\ result = Err("ProcessingFailed")
    /\ okSince = 1 /\ uteSince = 1
    /\ performance_stats.frames_processed = 1
    /\ performance_stats.uncertainty_rejections = 1


\* the three whole-call checks, as the design states them: a non-empty base
\* frame buffer, an uncertainty not above the threshold, an estimate within
\* the memory budget
PassesChecks(c) ==
    /\ c.base_frame.data # <<>>
    /\ ~AboveThreshold(c)
    /\ MathEstimate(c) <= config.max_memory_mb

AbsInt(x) == IF x < 0 THEN 0 - x ELSE x

\* (|transform[2]| + |transform[5]|) * u + (|transform[0] - 1| +
\* |transform[4] - 1|) * u for finite operands, in units of 1/Unit^2
\* (sequences are 1-based here)
ClaimedUncertainty(transform, u) ==
    (AbsInt(transform[3]) + AbsInt(transform[6])) * u
        + (AbsInt(transform[1] - Unit) + AbsInt(transform[5] - Unit)) * u

\* opacity >= 0.1 and transform uncertainty < quality_threshold; a comparison
\* with a NaN operand is false
ClaimedAdmitted(layer, u, quality_threshold) ==
    /\ layer.opacity * 10 >= Unit
    /\ \A k \in {1, 3, 5, 6} : layer.transform[k] # NaN
    /\ u # NaN /\ quality_threshold # NaN
    /\ ClaimedUncertainty(layer.transform, u) < quality_threshold * Unit

\* C11, as claimed: a call that passes the three checks and has any layer
\* with an empty creative buffer fails with ProcessingFailed, whatever that
\* layer's opacity and transform are.
C11_AnyEmptyLayerFailsTheCall ==
    [][(SegmentCallStep /\ PassesChecks(call')
          /\ \E k \in 1..Len(call'.layers) :
                 call'.layers[k].creative_data = <<>>)
        => result' = Err("ProcessingFailed")]_vars

\* C11, amended: a call that passes the three checks and has a layer that is
\* admitted (opacity >= 0.1, transform uncertainty < quality_threshold) and
\* whose creative buffer is empty fails with ProcessingFailed, whatever the
\* other layers are.
C11_AdmittedEmptyLayerFailsTheCall ==
    [][(SegmentCallStep /\ PassesChecks(call')
          /\ \E k \in 1..Len(call'.layers) :
                 /\ call'.layers[k].creative_data = <<>>
                 /\ ClaimedAdmitted(call'.layers[k], call'.uncertainty_score,
                                    config.quality_threshold))
        => result' = Err("ProcessingFailed")]_vars

\* a layer that composites, then an admitted layer with no creative data
C11_Witness ==
    /\ call.op = "composite_segment"
    /\ PassesChecks(call)
    /\ Len(call.layers) = 2
    /\ call.layers[1].creative_data # <<>>
    /\ ClaimedAdmitted(call.layers[1], call.uncertainty_score,
                       config.quality_threshold)
    /\ call.layers[2].creative_data = <<>>
    /\ ClaimedAdmitted(call.layers[2], call.uncertainty_score,
                       config.quality_threshold)
    /\ result = Err("ProcessingFailed")


-----------------------------------------------------------------------------
(* Properties of the layer admission gate (checked under SpecGate).        *)

\* C12: should_composite_layer admits a layer exactly when its opacity is
\* >= 0.1 and its transform uncertainty is strictly below quality_threshold;
\* so an opacity below 0.1 is rejected whatever the transform, and an
\* uncertainty equal to the threshold is rejected.
C12_AdmittedIffOpaqueAndCertain ==
    gret.tag = "bool" =>
        gret.value = ClaimedAdmitted(gargs.layer, gargs.uncertainty,
                                     gargs.config.quality_threshold)

\* an opaque layer whose transform uncertainty equals the threshold
C12_Witness ==
    /\ gret = BoolResult(FALSE)
    /\ gargs.layer.opacity * 10 >= Unit
    /\ \A k \in {1, 3, 5, 6} : gargs.layer.transform[k] # NaN
    /\ gargs.layer.transform[1] # Unit
    /\ ClaimedUncertainty(gargs.layer.transform, gargs.uncertainty)
           = gargs.config.quality_threshold * Unit


-----------------------------------------------------------------------------
(* The shape of the single-layer compositor's output (checked under        *)
(* SpecPixel).                                                             *)

\* C13: in a valid call the output has exactly the base buffer's length, and
\* every output byte at an index >= width * height * 4 is 0, whatever the
\* base frame holds there.
C13_OutputLengthAndZeroTail ==
    (Called /\ ValidCall) =>
        /\ ret.tag = "frame"
        /\ Len(ret.frame) = Len(args.base_frame)
        /\ \A k \in 1..Len(ret.frame) :
              k > WToInt(MathBytes) => ret.frame[k] = 0

\* a base buffer longer than the frame, non-zero past the last pixel
C13_Witness ==
    /\ Called /\ ValidCall /\ ret.tag = "frame"
    /\ WToInt(MathPixels) >= 1
    /\ Len(ret.frame) = Len(args.base_frame)
    /\ \E k \in 1..Len(args.base_frame) :
          /\ k > WToInt(MathBytes)
          /\ args.base_frame[k] # 0
          /\ ret.frame[k] = 0

====
